---- MODULE Spec2Model ----
(***************************************************************************)
(* Model of the performance analytics core of the streaming-ads backend:   *)
(*   backend/app/utils/math_utils.py                                       *)
(*   backend/app/services/campaign_service.py (get_campaign_performance)   *)
(*   backend/app/api/campaigns.py (GET /{campaign_id}/performance)         *)
(*                                                                         *)
(* Python numbers are modelled as exact rationals [n |-> num, d |-> den]   *)
(* in lowest terms with d > 0.  Two extra values have d = 0:               *)
(*   ZeroDivision = 0/0  the outcome of a division by zero (Python raises  *)
(*                       ZeroDivisionError; the value poisons every        *)
(*                       expression it flows into, as the exception would  *)
(*                       abort the routine),                               *)
(*   Infinity     = 1/0  float('inf').                                     *)
(* math.sqrt is exact on a rational that is a perfect square and otherwise *)
(* rounded down to a multiple of 1/SqrtScale (floats round to 53 bits).    *)
(* statistics.stdev(x) ** 2 is taken as the sample variance itself.        *)
(* round(x, k) is round-half-to-even on the exact value.                   *)
(***************************************************************************)
EXTENDS Integers, Sequences, FiniteSets, TLC

----------------------------------------------------------------------------
(* Exact rational arithmetic standing for Python int / float arithmetic.   *)

Abs(i) == IF i < 0 THEN -i ELSE i

RECURSIVE GCD(_, _)
GCD(a, b) == IF b = 0 THEN a ELSE GCD(b, a % b)

ZeroDivision == [n |-> 0, d |-> 0]

Infinity == [n |-> 1, d |-> 0]

Norm(num, den) ==
    IF den = 0 THEN ZeroDivision
    ELSE LET g == GCD(Abs(num), Abs(den))
             s == IF den < 0 THEN -1 ELSE 1
         IN  [n |-> (s * num) \div g, d |-> Abs(den) \div g]

R(i) == [n |-> i, d |-> 1]

Zero == R(0)

One == R(1)

IsNumber(a) == a.d > 0

\* the four operations cancel common factors before multiplying, so that the
\* intermediate products stay small
RAdd(a, b) ==
    IF a.d = 0 \/ b.d = 0 THEN ZeroDivision
    ELSE LET g == GCD(a.d, b.d)
         IN  Norm(a.n * (b.d \div g) + b.n * (a.d \div g), (a.d \div g) * b.d)

RNeg(a) == [n |-> -a.n, d |-> a.d]

RSub(a, b) == RAdd(a, RNeg(b))

RMul(a, b) ==
    IF a.d = 0 \/ b.d = 0 THEN ZeroDivision
    ELSE LET g1 == GCD(Abs(a.n), b.d)
             g2 == GCD(Abs(b.n), a.d)
         IN  Norm((a.n \div g1) * (b.n \div g2), (a.d \div g2) * (b.d \div g1))

\* a / b ; a zero divisor gives ZeroDivision (Python: ZeroDivisionError)
RDiv(a, b) ==
    IF a.d = 0 \/ b.d = 0 \/ b.n = 0 THEN ZeroDivision
    ELSE RMul(a, Norm(b.d, b.n))

RLt(a, b) ==
    /\ a.d > 0
    /\ b.d > 0
    /\ LET g == GCD(a.d, b.d) IN a.n * (b.d \div g) < b.n * (a.d \div g)

RLe(a, b) ==
    /\ a.d > 0
    /\ b.d > 0
    /\ LET g == GCD(a.d, b.d) IN a.n * (b.d \div g) <= b.n * (a.d \div g)

RGt(a, b) == RLt(b, a)

RGe(a, b) == RLe(b, a)

\* Python max(a, b) and min(a, b): the first argument wins ties
RMax(a, b) == IF RGt(b, a) THEN b ELSE a

RMin(a, b) == IF RLt(b, a) THEN b ELSE a

RAbs(a) == [n |-> Abs(a.n), d |-> a.d]

RSquare(a) == RMul(a, a)

Pow10(k) == IF k = 0 THEN 1 ELSE IF k = 1 THEN 10 ELSE IF k = 2 THEN 100
            ELSE IF k = 3 THEN 1000 ELSE 10000

\* Python round(x, k): nearest multiple of 10^-k, ties to the even one
Round(x, k) ==
    IF x.d = 0 THEN x
    ELSE LET num  == Abs(x.n) * Pow10(k)
             q    == num \div x.d
             r    == num % x.d
             up   == \/ 2 * r > x.d
                     \/ (2 * r = x.d /\ q % 2 = 1)
             mag  == IF up THEN q + 1 ELSE q
             sgn  == IF x.n < 0 THEN -1 ELSE 1
         IN  Norm(sgn * mag, Pow10(k))

\* largest k in lo..hi with k*k <= v (binary search)
RECURSIVE ISqrtIn(_, _, _)
ISqrtIn(lo, hi, v) ==
    IF lo >= hi THEN lo
    ELSE LET mid == (lo + hi + 1) \div 2
         IN  IF mid * mid <= v THEN ISqrtIn(mid, hi, v) ELSE ISqrtIn(lo, mid - 1, v)

ISqrt(v) == ISqrtIn(0, 46340, v)

IsSquare(v) == ISqrt(v) * ISqrt(v) = v

\* the finest scale 10^k, k <= 3, at which v * scale^2 still fits a 32-bit
\* integer: a float keeps a fixed number of significant digits
SqrtScale(v) ==
    IF v <= 2147 THEN 1000
    ELSE IF v <= 214748 THEN 100
    ELSE IF v <= 21474836 THEN 10
    ELSE 1

\* math.sqrt(x) for x >= 0
Sqrt(x) ==
    IF x.d = 0 THEN x
    ELSE IF IsSquare(x.n) /\ IsSquare(x.d) THEN Norm(ISqrt(x.n), ISqrt(x.d))
    ELSE LET s == SqrtScale(x.n)
         IN  Norm(ISqrt((x.n * s * s) \div x.d), s)

----------------------------------------------------------------------------
(* Python built-ins over lists and dicts.                                  *)

\* dict.get(key, default)
Get(dict, key, default) == IF key \in DOMAIN dict THEN dict[key] ELSE default

RECURSIVE SumSeq(_)
SumSeq(s) == IF s = <<>> THEN Zero ELSE RAdd(s[1], SumSeq(Tail(s)))

\* sum that keeps the last element instead of accumulating
SumInt_Last(s) == IF s = <<>> THEN 0 ELSE s[Len(s)]

RECURSIVE SumInt(_)
SumInt(s) == IF s = <<>> THEN 0 ELSE s[1] + SumInt(Tail(s))

\* [f(x) for x in s]
Column(s, key) == [i \in 1..Len(s) |-> s[i][key]]

ColumnGet(s, key, default) == [i \in 1..Len(s) |-> Get(s[i], key, default)]

ToR(s) == [i \in 1..Len(s) |-> R(s[i])]

\* statistics.mean of a non-empty list (an empty list raises StatisticsError,
\* every caller guards against it)
mean(data) == RDiv(SumSeq(data), R(Len(data)))

----------------------------------------------------------------------------
(* backend/app/utils/math_utils.py                                         *)

\* calculate_variance without the len(data) < 2 guard
calculate_variance_Unguarded(data) ==
    LET mean_val == mean(data)
        sq       == [i \in 1..Len(data) |-> RSquare(RSub(data[i], mean_val))]
    IN  RDiv(SumSeq(sq), R(Len(data) - 1))

\* sum((x - mean_val) ** 2 for x in data) / (len(data) - 1), 0 below 2 points
calculate_variance(data) ==
    IF Len(data) < 2 THEN Zero
    ELSE LET mean_val == mean(data)
             sq       == [i \in 1..Len(data) |-> RSquare(RSub(data[i], mean_val))]
         IN  RDiv(SumSeq(sq), R(Len(data) - 1))

\* calculate_trend centring the index on n / 2 instead of mean(x)
calculate_trend_WrongCentre(data) ==
    IF Len(data) < 2 THEN Zero
    ELSE LET n      == Len(data)
             x      == [i \in 1..n |-> R(i - 1)]
             x_mean == Norm(n, 2)
             y_mean == mean(data)
             numerator ==
                 SumSeq([i \in 1..n |-> RMul(RSub(x[i], x_mean), RSub(data[i], y_mean))])
             denominator ==
                 SumSeq([i \in 1..n |-> RSquare(RSub(x[i], x_mean))])
         IN  IF denominator # Zero THEN RDiv(numerator, denominator) ELSE Zero

\* least-squares slope of data against the index 0 .. n-1
calculate_trend(data) ==
    IF Len(data) < 2 THEN Zero
    ELSE LET n      == Len(data)
             x      == [i \in 1..n |-> R(i - 1)]
             x_mean == mean(x)
             y_mean == mean(data)
             numerator ==
                 SumSeq([i \in 1..n |-> RMul(RSub(x[i], x_mean), RSub(data[i], y_mean))])
             denominator ==
                 SumSeq([i \in 1..n |-> RSquare(RSub(x[i], x_mean))])
         IN  IF denominator # Zero THEN RDiv(numerator, denominator) ELSE Zero

\* CtrRisk without the max(0, .) floor
CtrRisk_NoFloor(ctr) == RSub(One, RDiv(ctr, R(5)))

CtrRisk(ctr) == RMax(Zero, RSub(One, RDiv(ctr, R(5))))

\* CvrRisk normalised like the variance: the risk grows with the rate
CvrRisk_Rising(cvr) == RMin(One, RDiv(cvr, R(10)))

CvrRisk(cvr) == RMax(Zero, RSub(One, RDiv(cvr, R(10))))

\* RoasRisk without the max(0, .) floor
RoasRisk_NoFloor(roas) == RSub(One, RDiv(roas, R(5)))

RoasRisk(roas) == RMax(Zero, RSub(One, RDiv(roas, R(5))))

\* VarianceRisk normalised by 100,000 instead of 1,000,000
VarianceRisk_Saturated(variance) == RMin(One, RDiv(variance, R(100000)))

VarianceRisk(variance) == RMin(One, RDiv(variance, R(1000000)))

calculate_risk_score(ctr, cvr, roas, variance) ==
    LET ctr_risk      == CtrRisk(ctr)
        cvr_risk      == CvrRisk(cvr)
        roas_risk     == RoasRisk(roas)
        variance_risk == VarianceRisk(variance)
    IN  RMul(RAdd(RAdd(RAdd(RMul(ctr_risk, Norm(3, 10)),
                            RMul(cvr_risk, Norm(3, 10))),
                       RMul(roas_risk, Norm(3, 10))),
                  RMul(variance_risk, Norm(1, 10))),
             R(100))

\* project_monthly_performance without the days_elapsed == 0 guard
project_monthly_performance_Unguarded(current_revenue, days_elapsed) ==
    RMul(RDiv(current_revenue, R(days_elapsed)), R(30))

\* project_monthly_performance returning the daily average, not 30 days of it
project_monthly_performance_NoScale(current_revenue, days_elapsed) ==
    IF days_elapsed = 0 THEN Zero
    ELSE RDiv(current_revenue, R(days_elapsed))

project_monthly_performance(current_revenue, days_elapsed) ==
    IF days_elapsed = 0 THEN Zero
    ELSE LET daily_average == RDiv(current_revenue, R(days_elapsed))
         IN  RMul(daily_average, R(30))

calculate_roi(revenue, cost) ==
    IF cost = Zero
    THEN (IF RGt(revenue, Zero) THEN Infinity ELSE Zero)
    ELSE RMul(RDiv(RSub(revenue, cost), cost), R(100))

\* statistics.stdev(data) ** 2: the sample variance (n - 1 denominator)
stdev_squared(data) ==
    LET m  == mean(data)
        sq == [i \in 1..Len(data) |-> RSquare(RSub(data[i], m))]
    IN  RDiv(SumSeq(sq), R(Len(data) - 1))

\* the early return of lines 130 and 143: a dict with three keys
DegenerateResult ==
    [p_value |-> One, significant |-> FALSE, confidence_interval |-> <<Zero, Zero>>]

\* the decision at the 1% level
Significant_OnePercent(p_value) == RLt(p_value, Norm(1, 100))

\* line 151: significant = p_value < 0.05
Significant(p_value) == RLt(p_value, Norm(5, 100))

\* the margin with the 90% factor 1.645
MarginOfError_Factor90(se) == RMul(Norm(1645, 1000), se)

\* line 154: margin_of_error = 1.96 * se
MarginOfError(se) == RMul(Norm(196, 100), se)

calculate_statistical_significance(control_group, test_group) ==
    IF Len(control_group) < 2 \/ Len(test_group) < 2 THEN DegenerateResult
    ELSE
    LET mean_control   == mean(control_group)
        mean_test      == mean(test_group)
        std_control_sq == IF Len(control_group) > 1 THEN stdev_squared(control_group) ELSE Zero
        std_test_sq    == IF Len(test_group) > 1 THEN stdev_squared(test_group) ELSE Zero
        se == Sqrt(RAdd(RDiv(std_control_sq, R(Len(control_group))),
                        RDiv(std_test_sq, R(Len(test_group)))))
    IN  IF se = Zero THEN DegenerateResult
        ELSE
        LET t_stat  == RDiv(RSub(mean_test, mean_control), se)
            p_value == RMul(R(2),
                            RSub(One,
                                 RDiv(RAbs(t_stat),
                                      RAdd(RAbs(t_stat),
                                           Sqrt(R(Len(control_group) + Len(test_group) - 2))))))
            significant     == Significant(p_value)
            margin_of_error == MarginOfError(se)
            ci_lower == RSub(RSub(mean_test, mean_control), margin_of_error)
            ci_upper == RAdd(RSub(mean_test, mean_control), margin_of_error)
        IN  [p_value |-> p_value,
             significant |-> significant,
             confidence_interval |-> <<ci_lower, ci_upper>>,
             effect_size |-> RSub(mean_test, mean_control)]

\* ProjectedValue without the max(0, .) floor
ProjectedValue_NoFloor(current_value, trend, projection_days) ==
    RAdd(current_value, RMul(trend, R(projection_days)))

\* lines 193-194 and 201-202: the projection, floored at 0 by max(0, .)
ProjectedValue(current_value, trend, projection_days) ==
    RMax(Zero, RAdd(current_value, RMul(trend, R(projection_days))))

\* Confidence without the max(0, .) floor
Confidence_NoFloor(revenues) ==
    LET revenue_variance == calculate_variance(revenues)
        confidence ==
            RSub(R(100),
                 RMul(RDiv(revenue_variance, RMax(mean(revenues), One)), R(100)))
    IN  RMin(R(100), confidence)

\* lines 197-198 and 203: max(0, 100 - variance / max(mean, 1) * 100), capped
\* at 100
Confidence(revenues) ==
    LET revenue_variance == calculate_variance(revenues)
        confidence ==
            RMax(Zero,
                 RSub(R(100),
                      RMul(RDiv(revenue_variance, RMax(mean(revenues), One)), R(100))))
    IN  RMin(R(100), confidence)

calculate_projected_performance(historical_data, projection_days) ==
    IF historical_data = <<>>
    THEN [projected_revenue |-> Zero, projected_spend |-> Zero, confidence |-> Zero]
    ELSE
    LET revenues == ToR(ColumnGet(historical_data, "revenue", 0))
        spends   == ToR(ColumnGet(historical_data, "spend", 0))
        revenue_trend == calculate_trend(revenues)
        spend_trend   == calculate_trend(spends)
        current_revenue == revenues[Len(revenues)]
        current_spend   == spends[Len(spends)]
    IN  [projected_revenue  |-> ProjectedValue(current_revenue, revenue_trend, projection_days),
         projected_spend    |-> ProjectedValue(current_spend, spend_trend, projection_days),
         confidence_percent |-> Confidence(revenues),
         revenue_trend      |-> revenue_trend,
         spend_trend        |-> spend_trend]

\* lines 12-28: the ratio metrics of the totals, before rounding
Ctr(impressions, clicks) ==
    IF impressions > 0 THEN RMul(RDiv(R(clicks), R(impressions)), R(100)) ELSE Zero

Cvr(clicks, conversions) ==
    IF clicks > 0 THEN RMul(RDiv(R(conversions), R(clicks)), R(100)) ELSE Zero

\* Cpc without its clicks > 0 guard
Cpc_Unguarded(clicks, spend) == RDiv(R(spend), R(clicks))

Cpc(clicks, spend) == IF clicks > 0 THEN RDiv(R(spend), R(clicks)) ELSE Zero

\* Cpm without its impressions > 0 guard
Cpm_Unguarded(impressions, spend) == RMul(RDiv(R(spend), R(impressions)), R(1000))

Cpm(impressions, spend) ==
    IF impressions > 0 THEN RMul(RDiv(R(spend), R(impressions)), R(1000)) ELSE Zero

Roas(spend, revenue) == IF spend > 0 THEN RDiv(R(revenue), R(spend)) ELSE Zero

CostPerAcquisition(conversions, spend) ==
    IF conversions > 0 THEN RDiv(R(spend), R(conversions)) ELSE Zero

ProfitMargin(spend, revenue) ==
    IF revenue > 0 THEN RMul(RDiv(R(revenue - spend), R(revenue)), R(100)) ELSE Zero

\* lines 12-69: the calculated_metrics dict built from performance_data
CalculatedMetrics(performance_data) ==
    LET impressions == Get(performance_data, "total_impressions", 0)
        clicks      == Get(performance_data, "total_clicks", 0)
        conversions == Get(performance_data, "total_conversions", 0)
        spend       == Get(performance_data, "total_spend", 0)
        revenue     == Get(performance_data, "total_revenue", 0)
        ctr  == Ctr(impressions, clicks)
        cvr  == Cvr(clicks, conversions)
        cpc  == Cpc(clicks, spend)
        cpm  == Cpm(impressions, spend)
        roas == Roas(spend, revenue)
        cost_per_acquisition == CostPerAcquisition(conversions, spend)
        profit        == R(revenue - spend)
        profit_margin == ProfitMargin(spend, revenue)
        daily_metrics == Get(performance_data, "daily_metrics", <<>>)
        daily_impressions == ToR(Column(daily_metrics, "impressions"))
        daily_spend       == ToR(Column(daily_metrics, "spend"))
        nonEmpty == daily_metrics # <<>>
        impression_variance == IF nonEmpty THEN calculate_variance(daily_impressions) ELSE Zero
        spend_variance      == IF nonEmpty THEN calculate_variance(daily_spend) ELSE Zero
        impression_trend    == IF nonEmpty THEN calculate_trend(daily_impressions) ELSE Zero
        spend_trend         == IF nonEmpty THEN calculate_trend(daily_spend) ELSE Zero
        risk_score == calculate_risk_score(ctr, cvr, roas, impression_variance)
        projected_monthly_revenue ==
            project_monthly_performance(R(revenue), Len(daily_metrics))
    IN  [ctr_percent |-> Round(ctr, 2),
         cvr_percent |-> Round(cvr, 2),
         cpc |-> Round(cpc, 2),
         cpm |-> Round(cpm, 2),
         roas |-> Round(roas, 2),
         cost_per_acquisition |-> Round(cost_per_acquisition, 2),
         profit |-> Round(profit, 2),
         profit_margin_percent |-> Round(profit_margin, 2),
         impression_variance |-> Round(impression_variance, 2),
         spend_variance |-> Round(spend_variance, 2),
         impression_trend |-> Round(impression_trend, 4),
         spend_trend |-> Round(spend_trend, 4),
         risk_score |-> Round(risk_score, 2),
         projected_monthly_revenue |-> Round(projected_monthly_revenue, 2)]

\* a division by zero anywhere in lines 19-51 aborts the call
RaisesZeroDivision(metrics) == \E k \in DOMAIN metrics : metrics[k] = ZeroDivision

\* calculate_campaign_performance that also stores the profit under the key
\* total_revenue
calculate_campaign_performance_StoresProfit(performance_data) ==
    [k \in DOMAIN performance_data \cup {"calculated_metrics"} |->
        IF k = "calculated_metrics" THEN CalculatedMetrics(performance_data)
        ELSE IF k = "total_revenue"
             THEN performance_data.total_revenue - performance_data.total_spend
             ELSE performance_data[k]]

\* dict.update({"calculated_metrics": ...}) on performance_data
calculate_campaign_performance(performance_data) ==
    [k \in DOMAIN performance_data \cup {"calculated_metrics"} |->
        IF k = "calculated_metrics" THEN CalculatedMetrics(performance_data)
        ELSE performance_data[k]]

----------------------------------------------------------------------------
(* backend/app/services/campaign_service.py                                *)

\* get_campaign_performance with total_clicks taken from the last row only
get_campaign_performance_LastClicks(campaign_id, metrics) ==
    [campaign_id       |-> campaign_id,
     campaign_name     |-> "campaign",
     total_impressions |-> SumInt(Column(metrics, "impressions")),
     total_clicks      |-> IF metrics = <<>> THEN 0 ELSE metrics[Len(metrics)].clicks,
     total_conversions |-> SumInt(Column(metrics, "conversions")),
     total_spend       |-> SumInt(Column(metrics, "spend")),
     total_revenue     |-> SumInt(Column(metrics, "revenue")),
     daily_metrics     |-> [i \in 1..Len(metrics) |->
                              [date        |-> metrics[i].date,
                               impressions |-> metrics[i].impressions,
                               clicks      |-> metrics[i].clicks,
                               conversions |-> metrics[i].conversions,
                               spend       |-> metrics[i].spend,
                               revenue     |-> metrics[i].revenue]]]

\* CampaignService.get_campaign_performance, lines 91-117, on the rows the
\* query of lines 80-89 returned
get_campaign_performance(campaign_id, metrics) ==
    [campaign_id       |-> campaign_id,
     campaign_name     |-> "campaign",
     total_impressions |-> SumInt(Column(metrics, "impressions")),
     total_clicks      |-> SumInt(Column(metrics, "clicks")),
     total_conversions |-> SumInt(Column(metrics, "conversions")),
     total_spend       |-> SumInt(Column(metrics, "spend")),
     total_revenue     |-> SumInt(Column(metrics, "revenue")),
     daily_metrics     |-> [i \in 1..Len(metrics) |->
                              [date        |-> metrics[i].date,
                               impressions |-> metrics[i].impressions,
                               clicks      |-> metrics[i].clicks,
                               conversions |-> metrics[i].conversions,
                               spend       |-> metrics[i].spend,
                               revenue     |-> metrics[i].revenue]]]

\* raise HTTPException(status_code=..., detail=...)
HTTPException(status_code, detail) ==
    [raised |-> "HTTPException", status_code |-> status_code, detail |-> detail]

\* a ValueError raised by the service
ValueError(message) == [raised |-> "ValueError", detail |-> message]

\* lines 60-64: assign status and updated_at, commit, refresh
CommitStatus(store, time, campaign_id, status) ==
    [campaigns |-> [store.campaigns EXCEPT ![campaign_id].status = status,
                                           ![campaign_id].updated_at = time],
     commits |-> store.commits + 1]

\* update_campaign_status assigning and committing before it validates
CampaignService_update_campaign_status_CommitFirst(store, time, campaign_id, status) ==
    IF campaign_id \notin DOMAIN store.campaigns
    THEN [db |-> store, result |-> ValueError("Campaign not found")]
    ELSE LET campaign == store.campaigns[campaign_id]
             stored   == CommitStatus(store, time, campaign_id, status)
         IN  IF status = "active" /\ campaign.status = "draft" /\ campaign.ads = <<>>
             THEN [db |-> stored,
                   result |-> ValueError("Cannot activate campaign without ads")]
             ELSE [db |-> stored, result |-> stored.campaigns[campaign_id]]

\* update_campaign_status refusing to leave the status completed
CampaignService_update_campaign_status_CompletedFinal(store, time, campaign_id, status) ==
    IF campaign_id \notin DOMAIN store.campaigns
    THEN [db |-> store, result |-> ValueError("Campaign not found")]
    ELSE LET campaign == store.campaigns[campaign_id]
         IN  IF \/ status = "active" /\ campaign.status = "draft" /\ campaign.ads = <<>>
                \/ campaign.status = "completed" /\ status # "completed"
             THEN [db |-> store,
                   result |-> ValueError("Cannot change a completed campaign")]
             ELSE LET stored == CommitStatus(store, time, campaign_id, status)
                  IN  [db |-> stored, result |-> stored.campaigns[campaign_id]]

\* CampaignService.update_campaign_status: the store it leaves and what it
\* returns or raises
CampaignService_update_campaign_status(store, time, campaign_id, status) ==
    IF campaign_id \notin DOMAIN store.campaigns
    THEN [db |-> store, result |-> ValueError("Campaign not found")]
    ELSE LET campaign == store.campaigns[campaign_id]
         IN  IF status = "active" /\ campaign.status = "draft" /\ campaign.ads = <<>>
             THEN [db |-> store,
                   result |-> ValueError("Cannot activate campaign without ads")]
             ELSE LET stored == CommitStatus(store, time, campaign_id, status)
                  IN  [db |-> stored, result |-> stored.campaigns[campaign_id]]

----------------------------------------------------------------------------
(* backend/app/api/campaigns.py                                            *)

valid_statuses == {"draft", "active", "paused", "completed"}

\* the endpoint PUT /{campaign_id}/status
update_campaign_status(store, time, campaign_id, status) ==
    IF status \notin valid_statuses
    THEN [db |-> store,
          result |-> HTTPException(400,
              "Invalid status. Must be one of: ['draft', 'active', 'paused', 'completed']")]
    ELSE CampaignService_update_campaign_status(store, time, campaign_id, status)

----------------------------------------------------------------------------
(* backend/app/api/analytics.py                                            *)

\* the check of line 129 rejecting every sample shorter than two
InsufficientData_BelowTwo(control_data, test_data) ==
    Len(control_data) < 2 \/ Len(test_data) < 2

\* line 129: not control_data or not test_data
InsufficientData(control_data, test_data) ==
    control_data = <<>> \/ test_data = <<>>

\* the analysis deciding at the level 1 - confidence_level
AbTestResults_AtLevel(control_data, test_data, confidence_level) ==
    LET results == calculate_statistical_significance(control_data, test_data)
    IN  [results EXCEPT !.significant = RLt(results.p_value, RSub(One, confidence_level))]

\* line 136: results = calculate_statistical_significance(control_data, test_data)
AbTestResults(control_data, test_data, confidence_level) ==
    calculate_statistical_significance(control_data, test_data)

\* run_ab_test_analysis, given what get_campaign_metric_data returned for the
\* two campaigns and what get_ab_test_recommendation returns for the results
run_ab_test_analysis(request, control_data, test_data, recommendation) ==
    IF InsufficientData(control_data, test_data)
    THEN HTTPException(400, "Insufficient data for A/B test analysis")
    ELSE [control_campaign_id |-> request.control_campaign_id,
          test_campaign_id |-> request.test_campaign_id,
          metric |-> request.metric,
          confidence_level |-> request.confidence_level,
          results |-> AbTestResults(control_data, test_data, request.confidence_level),
          recommendation |-> recommendation]

----------------------------------------------------------------------------
(* State: one call of a routine of the core, from its arguments to its     *)
(* return value.                                                           *)

VARIABLES
    pc,                \* "call" before the routine runs, "done" after it returned
    route,             \* the routine or endpoint that is called
    args,              \* the arguments of the call, as the caller passed them
    performance_data,  \* the dict handed to calculate_campaign_performance
    result,            \* the value returned, or the exception raised
    calls,             \* per worker: the report computation it runs
    frames,            \* per call frame: the local variables of lines 12-51
    db,                \* the stored campaigns and the number of commits
    now                \* datetime.utcnow() at the latest request

vars == <<pc, route, args, performance_data, result, calls, frames, db, now>>

None == "None"

\* the outcome of a call that raised instead of returning
Raised(exception) == [raised |-> exception]

\* bounds of the explored inputs
MaxSamples == 2

MaxTotal == 2

MaxRate == 3

MaxMoney == 7

MaxHistory == 3

MaxDays == 10

MaxGroup == 3

MaxSeries == 5

MaxData == 2

MaxCalls == 3

SeqsUpTo(S, n) == UNION {[1..k -> S] : k \in 0..n}

\* the two samples of the end-to-end example
Example1 == [impressions |-> 1000, clicks |-> 50, conversions |-> 5, spend |-> 100, revenue |-> 500]

Example2 == [impressions |-> 2000, clicks |-> 80, conversions |-> 8, spend |-> 150, revenue |-> 700]

MetricSamples ==
    [impressions : {0, 1000}, clicks : {0, 50}, conversions : {5},
     spend : {0, 100}, revenue : {0, 500}] \cup {Example2}

\* AdMetrics rows of one campaign, one per day, in the order the query returns them
MetricRows(samples) ==
    [i \in 1..Len(samples) |->
        [date |-> i, impressions |-> samples[i].impressions, clicks |-> samples[i].clicks,
         conversions |-> samples[i].conversions, spend |-> samples[i].spend,
         revenue |-> samples[i].revenue]]

Totals ==
    [total_impressions : 0..MaxTotal, total_clicks : 0..MaxTotal,
     total_conversions : 0..MaxTotal, total_spend : 0..MaxTotal,
     total_revenue : 0..MaxTotal]

WithDaily(totals, daily) ==
    [k \in DOMAIN totals \cup {"daily_metrics"} |->
        IF k = "daily_metrics" THEN daily ELSE totals[k]]

\* dicts a caller may hand to calculate_campaign_performance directly
DirectInputs ==
    Totals \cup {WithDaily(t, MetricRows(d)) :
                    t \in Totals, d \in SeqsUpTo({Example1, Example2}, MaxSamples)}

RateValues == {Norm(5 * i, 2) : i \in 0..MaxRate}

CvrValues == {R(5 * i) : i \in 0..MaxRate}

VarianceValues == {R(500000 * i) : i \in 0..MaxRate}

MoneyValues == {R(i) : i \in 0..MaxMoney}

HistoryEntries == [revenue : {0, 1, 2, 100, 150}, spend : {0, 50}]

ProjectionDays == {-MaxDays, -1, 0, 1, MaxDays}

SampleValues == {R(0), R(1), R(100)}

SeriesValues == {R(1), R(2), R(3), R(4), R(5)}

InitReport ==
    /\ pc = "call"
    /\ result = None
    /\ calls = <<>>
    /\ frames = <<>>
    /\ db = <<>>
    /\ now = 0
    /\ \/ /\ route = "get_campaign_performance"
          /\ \E samples \in SeqsUpTo(MetricSamples, MaxSamples) :
                args = [campaign_id |-> "c1", metrics |-> MetricRows(samples)]
          /\ performance_data = None
       \/ /\ route = "calculate_campaign_performance"
          /\ performance_data \in DirectInputs
          /\ args = [performance_data |-> performance_data]

InitMath ==
    /\ pc = "call"
    /\ result = None
    /\ calls = <<>>
    /\ frames = <<>>
    /\ db = <<>>
    /\ now = 0
    /\ performance_data = None
    /\ \/ /\ route = "calculate_roi"
          /\ args \in [revenue : MoneyValues, cost : MoneyValues]
       \/ /\ route = "calculate_risk_score"
          /\ args \in [ctr : RateValues, cvr : CvrValues, roas : RateValues,
                        variance : VarianceValues]

InitForecast ==
    /\ pc = "call"
    /\ result = None
    /\ calls = <<>>
    /\ frames = <<>>
    /\ db = <<>>
    /\ now = 0
    /\ performance_data = None
    /\ \/ /\ route = "calculate_projected_performance"
          /\ args \in [historical_data : SeqsUpTo(HistoryEntries, MaxHistory),
                        projection_days : ProjectionDays]
       \/ /\ route = "project_monthly_performance"
          /\ args \in [current_revenue : MoneyValues, days_elapsed : 0..MaxDays]

InitSignificance ==
    /\ pc = "call"
    /\ result = None
    /\ calls = <<>>
    /\ frames = <<>>
    /\ db = <<>>
    /\ now = 0
    /\ performance_data = None
    /\ route = "calculate_statistical_significance"
    /\ args \in [control_group : SeqsUpTo(SampleValues, MaxGroup),
                  test_group : SeqsUpTo(SampleValues, MaxGroup)]

InitSeries ==
    /\ pc = "call"
    /\ result = None
    /\ calls = <<>>
    /\ frames = <<>>
    /\ db = <<>>
    /\ now = 0
    /\ performance_data = None
    /\ route \in {"calculate_variance", "calculate_trend"}
    /\ args \in [data : SeqsUpTo(SeriesValues, MaxSeries)]

\* values of the query parameter confidence_level, within ge=0.8, le=0.99
ConfidenceLevels == {Norm(80, 100), Norm(95, 100), Norm(99, 100)}

\* values of the query parameter metric
Metrics == {"ctr", "roas"}

\* answers of get_ab_test_recommendation
Recommendations == {"adopt_test", "keep_control"}

\* a request to POST /ab-test and the metric data stored for its two campaigns
InitAbTest ==
    /\ pc = "call"
    /\ result = None
    /\ calls = <<>>
    /\ frames = <<>>
    /\ db = <<>>
    /\ now = 0
    /\ performance_data = None
    /\ route = "run_ab_test_analysis"
    /\ args \in [control_campaign_id : {"c1"}, test_campaign_id : {"c2"},
                  metric : Metrics, confidence_level : ConfidenceLevels,
                  control_data : SeqsUpTo(SampleValues, MaxData),
                  test_data : SeqsUpTo(SampleValues, MaxData)]

\* ids of the stored campaigns
CampaignIds == {"c1"}

\* campaign ids a request may name: a stored one and an unknown one
RequestedIds == CampaignIds \cup {"c9"}

\* status values a request may carry: the four valid ones and an invalid one
RequestedStatuses == valid_statuses \cup {"archived"}

\* the ads relationship of a campaign: no ad, or one ad
AdLists == {<<>>, <<"ad1">>}

\* the store after create_campaign: every campaign in the default status
\* draft, with or without ads
InitCampaign ==
    /\ pc = "call"
    /\ route = "update_campaign_status"
    /\ args = None
    /\ result = None
    /\ performance_data = None
    /\ calls = <<>>
    /\ frames = <<>>
    /\ now = 0
    /\ \E ads \in [CampaignIds -> AdLists] :
          db = [campaigns |-> [c \in CampaignIds |->
                                 [status |-> "draft", updated_at |-> 0, ads |-> ads[c]]],
                commits |-> 0]

\* the worker threads of the request layer
Workers == {1, 2}

\* dicts the two concurrent computations are given
ConcurrentInputs ==
    {get_campaign_performance("c1", MetricRows(d)) :
        d \in SeqsUpTo({Example1, Example2}, MaxSamples)}

\* the local variables of a call before line 12 binds them
EmptyFrame ==
    [impressions |-> 0, clicks |-> 0, conversions |-> 0, spend |-> 0, revenue |-> 0,
     ctr |-> Zero, cvr |-> Zero, cpc |-> Zero, cpm |-> Zero, roas |-> Zero,
     cost_per_acquisition |-> Zero, profit |-> Zero, profit_margin |-> Zero,
     impression_variance |-> Zero, spend_variance |-> Zero,
     impression_trend |-> Zero, spend_trend |-> Zero,
     risk_score |-> Zero, projected_monthly_revenue |-> Zero]

\* the locals of a call live in a frame of their own
FrameOf_Shared(w) == 1

\* the frame that holds the local variables of the call run by worker w:
\* every call of the routine has a frame of its own
FrameOf(w) == w

\* two workers, each about to call calculate_campaign_performance on a dict
\* of its own
InitConcurrent ==
    /\ pc = "call"
    /\ route = "concurrent_reports"
    /\ result = None
    /\ performance_data = None
    /\ args \in [Workers -> ConcurrentInputs]
    /\ calls = [w \in Workers |-> [pc |-> "read", performance_data |-> args[w], result |-> None]]
    /\ frames = [w \in Workers |-> EmptyFrame]
    /\ db = <<>>
    /\ now = 0

Init ==
    \/ InitReport
    \/ InitMath
    \/ InitForecast
    \/ InitSignificance
    \/ InitSeries
    \/ InitConcurrent
    \/ InitAbTest
    \/ InitCampaign

\* api/campaigns.py get_campaign_performance: aggregate, then enhance
GetCampaignPerformance ==
    /\ pc = "call"
    /\ route = "get_campaign_performance"
    /\ LET performance == get_campaign_performance(args.campaign_id, args.metrics)
       IN  IF RaisesZeroDivision(CalculatedMetrics(performance))
           THEN /\ performance_data' = performance
                /\ result' = Raised("ZeroDivisionError")
           ELSE /\ performance_data' = calculate_campaign_performance(performance)
                /\ result' = performance_data'
    /\ pc' = "done"
    /\ UNCHANGED <<db, now, calls, frames, route, args>>

\* calculate_campaign_performance on a dict of the caller: updated in place
\* and returned
CalculateCampaignPerformance ==
    /\ pc = "call"
    /\ route = "calculate_campaign_performance"
    /\ IF RaisesZeroDivision(CalculatedMetrics(performance_data))
       THEN /\ result' = Raised("ZeroDivisionError")
            /\ UNCHANGED performance_data
       ELSE /\ performance_data' = calculate_campaign_performance(performance_data)
            /\ result' = performance_data'
    /\ pc' = "done"
    /\ UNCHANGED <<db, now, calls, frames, route, args>>

\* the caller hands the report it was returned to
\* calculate_campaign_performance once more
ReapplyCampaignPerformance ==
    /\ pc = "done"
    /\ route = "calculate_campaign_performance"
    /\ "raised" \notin DOMAIN result
    /\ IF RaisesZeroDivision(CalculatedMetrics(result))
       THEN /\ result' = Raised("ZeroDivisionError")
            /\ UNCHANGED performance_data
       ELSE /\ performance_data' = calculate_campaign_performance(result)
            /\ result' = performance_data'
    /\ pc' = "again"
    /\ UNCHANGED <<db, now, calls, frames, route, args>>

CalculateRoi ==
    /\ pc = "call"
    /\ route = "calculate_roi"
    /\ result' = calculate_roi(args.revenue, args.cost)
    /\ pc' = "done"
    /\ UNCHANGED <<db, now, calls, frames, route, args, performance_data>>

CalculateRiskScore ==
    /\ pc = "call"
    /\ route = "calculate_risk_score"
    /\ result' = calculate_risk_score(args.ctr, args.cvr, args.roas, args.variance)
    /\ pc' = "done"
    /\ UNCHANGED <<db, now, calls, frames, route, args, performance_data>>

CalculateProjectedPerformance ==
    /\ pc = "call"
    /\ route = "calculate_projected_performance"
    /\ result' = calculate_projected_performance(args.historical_data, args.projection_days)
    /\ pc' = "done"
    /\ UNCHANGED <<db, now, calls, frames, route, args, performance_data>>

ProjectMonthlyPerformance ==
    /\ pc = "call"
    /\ route = "project_monthly_performance"
    /\ result' = project_monthly_performance(args.current_revenue, args.days_elapsed)
    /\ pc' = "done"
    /\ UNCHANGED <<db, now, calls, frames, route, args, performance_data>>

CalculateStatisticalSignificance ==
    /\ pc = "call"
    /\ route = "calculate_statistical_significance"
    /\ result' = calculate_statistical_significance(args.control_group, args.test_group)
    /\ pc' = "done"
    /\ UNCHANGED <<db, now, calls, frames, route, args, performance_data>>

\* one request PUT /{campaign_id}/status, served from the endpoint's check
\* to the service's return or raise
UpdateCampaignStatus ==
    /\ route = "update_campaign_status"
    /\ now < MaxCalls
    /\ \E campaign_id \in RequestedIds, status \in RequestedStatuses :
          LET outcome == update_campaign_status(db, now + 1, campaign_id, status)
          IN  /\ args' = [campaign_id |-> campaign_id, status |-> status]
              /\ db' = outcome.db
              /\ result' = outcome.result
    /\ now' = now + 1
    /\ pc' = "done"
    /\ UNCHANGED <<calls, frames, route, performance_data>>

RunAbTestAnalysis ==
    /\ pc = "call"
    /\ route = "run_ab_test_analysis"
    /\ \E recommendation \in Recommendations :
          result' = run_ab_test_analysis(args, args.control_data, args.test_data,
                                         recommendation)
    /\ pc' = "done"
    /\ UNCHANGED <<db, now, calls, frames, route, args, performance_data>>

CalculateVariance ==
    /\ pc = "call"
    /\ route = "calculate_variance"
    /\ result' = calculate_variance(args.data)
    /\ pc' = "done"
    /\ UNCHANGED <<db, now, calls, frames, route, args, performance_data>>

CalculateTrend ==
    /\ pc = "call"
    /\ route = "calculate_trend"
    /\ result' = calculate_trend(args.data)
    /\ pc' = "done"
    /\ UNCHANGED <<db, now, calls, frames, route, args, performance_data>>

Advance(w, label) == [calls EXCEPT ![w].pc = label]

\* lines 12-16 run by worker w: bind the totals
ReadTotals(w) ==
    /\ route = "concurrent_reports"
    /\ calls[w].pc = "read"
    /\ LET d == calls[w].performance_data
       IN  frames' = [frames EXCEPT ![FrameOf(w)] =
                        [@ EXCEPT !.impressions = Get(d, "total_impressions", 0),
                                  !.clicks = Get(d, "total_clicks", 0),
                                  !.conversions = Get(d, "total_conversions", 0),
                                  !.spend = Get(d, "total_spend", 0),
                                  !.revenue = Get(d, "total_revenue", 0)]]
    /\ calls' = Advance(w, "rates")
    /\ UNCHANGED <<db, now, pc, route, args, performance_data, result>>

\* lines 19-28 run by worker w: the rates and the advanced metrics
ComputeRates(w) ==
    /\ route = "concurrent_reports"
    /\ calls[w].pc = "rates"
    /\ LET f == frames[FrameOf(w)]
       IN  frames' = [frames EXCEPT ![FrameOf(w)] =
                        [@ EXCEPT !.ctr = Ctr(f.impressions, f.clicks),
                                  !.cvr = Cvr(f.clicks, f.conversions),
                                  !.cpc = Cpc(f.clicks, f.spend),
                                  !.cpm = Cpm(f.impressions, f.spend),
                                  !.roas = Roas(f.spend, f.revenue),
                                  !.cost_per_acquisition =
                                      CostPerAcquisition(f.conversions, f.spend),
                                  !.profit = R(f.revenue - f.spend),
                                  !.profit_margin = ProfitMargin(f.spend, f.revenue)]]
    /\ calls' = Advance(w, "statistics")
    /\ UNCHANGED <<db, now, pc, route, args, performance_data, result>>

\* lines 31-45 run by worker w: variance and trend of the daily series
ComputeStatistics(w) ==
    /\ route = "concurrent_reports"
    /\ calls[w].pc = "statistics"
    /\ LET daily_metrics     == Get(calls[w].performance_data, "daily_metrics", <<>>)
           daily_impressions == ToR(Column(daily_metrics, "impressions"))
           daily_spend       == ToR(Column(daily_metrics, "spend"))
       IN  frames' = [frames EXCEPT ![FrameOf(w)] =
                        IF daily_metrics # <<>>
                        THEN [@ EXCEPT !.impression_variance = calculate_variance(daily_impressions),
                                       !.spend_variance = calculate_variance(daily_spend),
                                       !.impression_trend = calculate_trend(daily_impressions),
                                       !.spend_trend = calculate_trend(daily_spend)]
                        ELSE [@ EXCEPT !.impression_variance = Zero,
                                       !.spend_variance = Zero,
                                       !.impression_trend = Zero,
                                       !.spend_trend = Zero]]
    /\ calls' = Advance(w, "risk")
    /\ UNCHANGED <<db, now, pc, route, args, performance_data, result>>

\* lines 48-51 run by worker w: risk score and monthly projection
ComputeRisk(w) ==
    /\ route = "concurrent_reports"
    /\ calls[w].pc = "risk"
    /\ LET f == frames[FrameOf(w)]
           daily_metrics == Get(calls[w].performance_data, "daily_metrics", <<>>)
       IN  frames' = [frames EXCEPT ![FrameOf(w)] =
                        [@ EXCEPT !.risk_score =
                                      calculate_risk_score(f.ctr, f.cvr, f.roas,
                                                           f.impression_variance),
                                  !.projected_monthly_revenue =
                                      project_monthly_performance(R(f.revenue),
                                                                  Len(daily_metrics))]]
    /\ calls' = Advance(w, "update")
    /\ UNCHANGED <<db, now, pc, route, args, performance_data, result>>

\* lines 53-72 run by worker w: update the dict with the rounded locals and
\* return it
UpdateAndReturn(w) ==
    /\ route = "concurrent_reports"
    /\ calls[w].pc = "update"
    /\ LET f == frames[FrameOf(w)]
           d == calls[w].performance_data
           calculated_metrics ==
               [ctr_percent |-> Round(f.ctr, 2),
                cvr_percent |-> Round(f.cvr, 2),
                cpc |-> Round(f.cpc, 2),
                cpm |-> Round(f.cpm, 2),
                roas |-> Round(f.roas, 2),
                cost_per_acquisition |-> Round(f.cost_per_acquisition, 2),
                profit |-> Round(f.profit, 2),
                profit_margin_percent |-> Round(f.profit_margin, 2),
                impression_variance |-> Round(f.impression_variance, 2),
                spend_variance |-> Round(f.spend_variance, 2),
                impression_trend |-> Round(f.impression_trend, 4),
                spend_trend |-> Round(f.spend_trend, 4),
                risk_score |-> Round(f.risk_score, 2),
                projected_monthly_revenue |-> Round(f.projected_monthly_revenue, 2)]
           updated ==
               [k \in DOMAIN d \cup {"calculated_metrics"} |->
                   IF k = "calculated_metrics" THEN calculated_metrics ELSE d[k]]
       IN  calls' = [calls EXCEPT ![w] =
                       IF RaisesZeroDivision(calculated_metrics)
                       THEN [pc |-> "done", performance_data |-> d,
                             result |-> Raised("ZeroDivisionError")]
                       ELSE [pc |-> "done", performance_data |-> updated,
                             result |-> updated]]
    /\ UNCHANGED <<db, now, pc, route, args, performance_data, result, frames>>

NextReport ==
    \/ GetCampaignPerformance
    \/ CalculateCampaignPerformance
    \/ ReapplyCampaignPerformance

NextMath == CalculateRoi \/ CalculateRiskScore

NextForecast == CalculateProjectedPerformance \/ ProjectMonthlyPerformance

NextSignificance == CalculateStatisticalSignificance

NextSeries == CalculateVariance \/ CalculateTrend

NextAbTest == RunAbTestAnalysis

NextCampaign == UpdateCampaignStatus

NextConcurrent ==
    \E w \in Workers :
        \/ ReadTotals(w)
        \/ ComputeRates(w)
        \/ ComputeStatistics(w)
        \/ ComputeRisk(w)
        \/ UpdateAndReturn(w)

Next ==
    \/ NextReport
    \/ NextMath
    \/ NextForecast
    \/ NextSignificance
    \/ NextSeries
    \/ NextConcurrent
    \/ NextAbTest
    \/ NextCampaign

SpecReport == InitReport /\ [][NextReport]_vars

SpecMath == InitMath /\ [][NextMath]_vars

SpecForecast == InitForecast /\ [][NextForecast]_vars

SpecSignificance == InitSignificance /\ [][NextSignificance]_vars

SpecSeries == InitSeries /\ [][NextSeries]_vars

SpecCampaign == InitCampaign /\ [][NextCampaign]_vars

SpecAbTest == InitAbTest /\ [][NextAbTest]_vars

SpecConcurrent == InitConcurrent /\ [][NextConcurrent]_vars

Spec == Init /\ [][Next]_vars

Returned == pc = "done"

RaisedError == Returned /\ "raised" \in DOMAIN result

----------------------------------------------------------------------------
(* Properties of the report: calculate_campaign_performance                *)

ReportReturned ==
    /\ Returned
    /\ route \in {"get_campaign_performance", "calculate_campaign_performance"}

\* C1: for every totals record with non-negative fields
\* calculate_campaign_performance raises no error, and each ratio is 0 when
\* its own denominator is 0: ctr_percent and cpm for total_impressions = 0,
\* cvr_percent and cpc for total_clicks = 0, roas for total_spend = 0,
\* cost_per_acquisition for total_conversions = 0 and profit_margin_percent
\* for total_revenue = 0.
C1_ZeroDenominatorGivesZero ==
    ReportReturned =>
        /\ ~RaisedError
        /\ LET m == result.calculated_metrics
               t == performance_data
           IN  /\ t.total_impressions = 0 => m.ctr_percent = Zero /\ m.cpm = Zero
               /\ t.total_clicks = 0 => m.cvr_percent = Zero /\ m.cpc = Zero
               /\ t.total_spend = 0 => m.roas = Zero
               /\ t.total_conversions = 0 => m.cost_per_acquisition = Zero
               /\ t.total_revenue = 0 => m.profit_margin_percent = Zero

\* a call whose impressions, conversions and revenue denominators are 0 while
\* clicks and spend are not
C1_Witness ==
    /\ Returned
    /\ route = "calculate_campaign_performance"
    /\ args.performance_data.total_impressions = 0
    /\ args.performance_data.total_conversions = 0
    /\ args.performance_data.total_revenue = 0
    /\ args.performance_data.total_clicks = 2
    /\ args.performance_data.total_spend = 1
    /\ ~RaisedError
    /\ result.calculated_metrics.ctr_percent = Zero
    /\ result.calculated_metrics.cpm = Zero
    /\ result.calculated_metrics.cost_per_acquisition = Zero
    /\ result.calculated_metrics.profit_margin_percent = Zero
    /\ result.calculated_metrics.cpc = Norm(1, 2)

----------------------------------------------------------------------------
(* Properties of calculate_statistical_significance                        *)

SignificanceReturned == Returned /\ route = "calculate_statistical_significance"

\* C2: every result of calculate_statistical_significance has p_value in
\* the closed interval [0, 1].
C2_PValueInUnitInterval ==
    SignificanceReturned =>
        /\ RLe(Zero, result.p_value)
        /\ RLe(result.p_value, One)

\* both samples have zero variance, so the standard error is 0
ZeroStandardError(control_group, test_group) ==
    /\ Len(control_group) >= 2
    /\ Len(test_group) >= 2
    /\ \A i \in 1..Len(control_group) : control_group[i] = control_group[1]
    /\ \A i \in 1..Len(test_group) : test_group[i] = test_group[1]

\* C3: with fewer than 2 elements in either sample, or a standard error of
\* 0, the result is exactly the degenerate result with all four fields:
\* p_value 1.0, significant false, confidence_interval [0, 0], effect_size 0.
C3_DegenerateResultHasFourFields ==
    ( /\ SignificanceReturned
      /\ \/ Len(args.control_group) < 2
         \/ Len(args.test_group) < 2
         \/ ZeroStandardError(args.control_group, args.test_group) )
    => result = [p_value |-> One, significant |-> FALSE,
                 confidence_interval |-> <<Zero, Zero>>, effect_size |-> Zero]

----------------------------------------------------------------------------
(* Properties of the ratio routines                                        *)

\* C4: every ratio routine of math_utils, calculate_roi included, resolves
\* to 0 when its denominator is 0; none raises and none returns an infinite
\* or undefined value, for non-negative revenue and cost.
C4_EveryRatioGuarded ==
    /\ (Returned /\ route = "calculate_roi" /\ args.cost = Zero) => result = Zero
    /\ (Returned /\ route = "project_monthly_performance" /\ args.days_elapsed = 0)
          => result = Zero
    /\ ReportReturned =>
          /\ ~RaisedError
          /\ performance_data.total_impressions = 0 =>
                /\ result.calculated_metrics.ctr_percent = Zero
                /\ result.calculated_metrics.cpm = Zero
          /\ performance_data.total_clicks = 0 =>
                /\ result.calculated_metrics.cvr_percent = Zero
                /\ result.calculated_metrics.cpc = Zero
          /\ performance_data.total_spend = 0 => result.calculated_metrics.roas = Zero

InUnit(x) == RLe(Zero, x) /\ RLe(x, One)

\* C5: for non-negative ctr, cvr, roas and variance calculate_risk_score
\* returns a value in [0, 100]; each of the four sub-risks lies in [0, 1]
\* and the weights 0.3, 0.3, 0.3, 0.1 sum to 1.
C5_RiskScoreInRange ==
    (Returned /\ route = "calculate_risk_score") =>
        /\ RLe(Zero, result)
        /\ RLe(result, R(100))
        /\ InUnit(CtrRisk(args.ctr))
        /\ InUnit(CvrRisk(args.cvr))
        /\ InUnit(RoasRisk(args.roas))
        /\ InUnit(VarianceRisk(args.variance))
        /\ RAdd(RAdd(RAdd(Norm(3, 10), Norm(3, 10)), Norm(3, 10)), Norm(1, 10)) = One

\* inputs beyond both normalisation thresholds: ctr 7.5 > 5 and variance
\* 1,500,000 > 1,000,000 give 0.3*0 + 0.3*1 + 0.3*1 + 0.1*1 = 70
C5_Witness ==
    /\ Returned
    /\ route = "calculate_risk_score"
    /\ args.ctr = Norm(15, 2)
    /\ args.cvr = Zero
    /\ args.roas = Zero
    /\ args.variance = R(1500000)
    /\ result = R(70)

----------------------------------------------------------------------------
(* Properties of the forecast: calculate_projected_performance             *)

ForecastReturned == Returned /\ route = "calculate_projected_performance"

LastOf(history, key) == R(history[Len(history)][key])

\* C6: for every non-empty history projected_revenue = max(0, last revenue +
\* revenue_trend * projection_days) and projected_spend = max(0, last spend
\* + spend_trend * projection_days), and neither is negative.
C6_ProjectionFlooredAtZero ==
    (ForecastReturned /\ args.historical_data # <<>>) =>
        LET rev == RAdd(LastOf(args.historical_data, "revenue"),
                        RMul(result.revenue_trend, R(args.projection_days)))
            spd == RAdd(LastOf(args.historical_data, "spend"),
                        RMul(result.spend_trend, R(args.projection_days)))
        IN  /\ result.projected_revenue = (IF RLt(rev, Zero) THEN Zero ELSE rev)
            /\ result.projected_spend = (IF RLt(spd, Zero) THEN Zero ELSE spd)
            /\ RGe(result.projected_revenue, Zero)
            /\ RGe(result.projected_spend, Zero)

\* current 100, slope -50, 10 days: 0 and not -400
C6_Witness ==
    /\ ForecastReturned
    /\ args.historical_data = <<[revenue |-> 150, spend |-> 0], [revenue |-> 100, spend |-> 0]>>
    /\ args.projection_days = 10
    /\ result.revenue_trend = R(-50)
    /\ result.projected_revenue = Zero

\* C7: with a negative projection_days calculate_projected_performance
\* returns the same result as with projection_days = 0.
C7_NegativeDaysAsZeroDays ==
    (ForecastReturned /\ args.projection_days < 0) =>
        result = calculate_projected_performance(args.historical_data, 0)

\* C8: with an empty history the forecast has projected_revenue,
\* projected_spend and confidence_percent all 0, under the same field names
\* as for a non-empty history; project_monthly_performance returns 0 when
\* days_elapsed = 0.
C8_EmptyHistoryForecast ==
    /\ (ForecastReturned /\ args.historical_data = <<>>) =>
          /\ {"projected_revenue", "projected_spend", "confidence_percent"}
                \subseteq DOMAIN result
          /\ result.projected_revenue = Zero
          /\ result.projected_spend = Zero
          /\ result.confidence_percent = Zero
    /\ (Returned /\ route = "project_monthly_performance" /\ args.days_elapsed = 0)
          => result = Zero

Clamp(lo, hi, x) == IF RLt(x, lo) THEN lo ELSE IF RGt(x, hi) THEN hi ELSE x

\* sample variance by the sum-of-squares identity
\* (sum x^2 - (sum x)^2 / n) / (n - 1), 0 below 2 points
SampleVariance(xs) ==
    IF Len(xs) < 2 THEN Zero
    ELSE RDiv(RSub(SumSeq([i \in 1..Len(xs) |-> RSquare(xs[i])]),
                   RDiv(RSquare(SumSeq(xs)), R(Len(xs)))),
              R(Len(xs) - 1))

\* C9: for every non-empty history of non-negative revenues
\* confidence_percent = clamp(0, 100, 100 - variance / max(mean, 1) * 100),
\* so it lies in [0, 100].
C9_ConfidenceClamped ==
    (ForecastReturned /\ args.historical_data # <<>>) =>
        LET revenues == ToR(Column(args.historical_data, "revenue"))
            m        == RDiv(SumSeq(revenues), R(Len(revenues)))
            raw      == RSub(R(100),
                             RMul(RDiv(SampleVariance(revenues),
                                       IF RLt(m, One) THEN One ELSE m),
                                  R(100)))
        IN  /\ result.confidence_percent = Clamp(Zero, R(100), raw)
            /\ RLe(Zero, result.confidence_percent)
            /\ RLe(result.confidence_percent, R(100))

\* revenues 1, 2: variance 1/2, mean 3/2, confidence 100 - 100/3 = 200/3;
\* and a history whose raw value 100 - 1250/125*100 is far below 0
C9_Witness ==
    /\ ForecastReturned
    /\ args.historical_data = <<[revenue |-> 1, spend |-> 50], [revenue |-> 2, spend |-> 0]>>
    /\ result.confidence_percent = Norm(200, 3)

----------------------------------------------------------------------------
(* End to end: GET /{campaign_id}/performance                              *)

RECURSIVE FieldSum(_, _, _)
FieldSum(rows, key, upTo) ==
    IF upTo = 0 THEN 0 ELSE FieldSum(rows, key, upTo - 1) + rows[upTo][key]

\* C10: for a non-empty sample collection the totals are the field sums over
\* the samples, and the derived metrics are computed from those totals
\* (rounded to 2 decimals): ctr_percent = total_clicks / total_impressions *
\* 100, roas = total_revenue / total_spend, profit = total_revenue -
\* total_spend.  The samples (1000,50,5,100,500) and (2000,80,8,150,700) give
\* total_impressions 3000, total_clicks 130, ctr_percent 4.33, total_spend
\* 250, total_revenue 1200, roas 4.8 and profit 950.
C10_ReportFromTotals ==
    (Returned /\ route = "get_campaign_performance" /\ args.metrics # <<>>) =>
        LET rows == args.metrics
            n    == Len(rows)
            m    == result.calculated_metrics
        IN  /\ ~RaisedError
            /\ result.total_impressions = FieldSum(rows, "impressions", n)
            /\ result.total_clicks = FieldSum(rows, "clicks", n)
            /\ result.total_conversions = FieldSum(rows, "conversions", n)
            /\ result.total_spend = FieldSum(rows, "spend", n)
            /\ result.total_revenue = FieldSum(rows, "revenue", n)
            /\ result.total_impressions > 0 =>
                  m.ctr_percent =
                      Round(Norm(result.total_clicks * 100, result.total_impressions), 2)
            /\ result.total_spend > 0 =>
                  m.roas = Round(Norm(result.total_revenue, result.total_spend), 2)
            /\ m.profit = R(result.total_revenue - result.total_spend)
            /\ rows = MetricRows(<<Example1, Example2>>) =>
                  /\ result.total_impressions = 3000
                  /\ result.total_clicks = 130
                  /\ m.ctr_percent = Norm(433, 100)
                  /\ result.total_spend = 250
                  /\ result.total_revenue = 1200
                  /\ m.roas = Norm(48, 10)
                  /\ m.profit = R(950)

\* the report of the two example samples, field by field
C10_Witness ==
    /\ Returned
    /\ route = "get_campaign_performance"
    /\ args.metrics = MetricRows(<<Example1, Example2>>)
    /\ result.total_impressions = 3000
    /\ result.total_conversions = 13
    /\ result.calculated_metrics =
          [ctr_percent |-> Norm(433, 100), cvr_percent |-> R(10), cpc |-> Norm(192, 100),
           cpm |-> Norm(8333, 100), roas |-> Norm(48, 10),
           cost_per_acquisition |-> Norm(1923, 100), profit |-> R(950),
           profit_margin_percent |-> Norm(7917, 100), impression_variance |-> R(500000),
           spend_variance |-> R(1250), impression_trend |-> R(1000), spend_trend |-> R(50),
           risk_score |-> Norm(102, 10), projected_monthly_revenue |-> R(18000)]

----------------------------------------------------------------------------
(* The report of an empty collection, its forecast and its effect on the   *)
(* caller's dict                                                           *)

\* C11: for an empty sample collection the report builder raises no
\* exception and returns the default report: the five totals, every ratio
\* metric, profit, both variances, both trends and projected_monthly_revenue
\* are 0.
C11_EmptyCollectionReport ==
    (Returned /\ route = "get_campaign_performance" /\ args.metrics = <<>>) =>
        /\ ~RaisedError
        /\ result.total_impressions = 0
        /\ result.total_clicks = 0
        /\ result.total_conversions = 0
        /\ result.total_spend = 0
        /\ result.total_revenue = 0
        /\ \A k \in {"ctr_percent", "cvr_percent", "cpc", "cpm", "roas",
                      "cost_per_acquisition", "profit", "profit_margin_percent",
                      "impression_variance", "spend_variance", "impression_trend",
                      "spend_trend", "projected_monthly_revenue"} :
              result.calculated_metrics[k] = Zero

\* the request for a campaign without metric rows has been answered
C11_Witness ==
    /\ Returned
    /\ route = "get_campaign_performance"
    /\ args.metrics = <<>>
    /\ result.daily_metrics = <<>>
    /\ result.calculated_metrics.projected_monthly_revenue = Zero
    /\ result.calculated_metrics.profit = Zero

C13_InputUnchanged ==
    (Returned /\ route = "calculate_campaign_performance") =>
        performance_data = args.performance_data

----------------------------------------------------------------------------
(* The aggregator and the guards of the click ratios                       *)

Reorderings(n) == {p \in [1..n -> 1..n] : \A i, j \in 1..n : p[i] = p[j] => i = j}

TotalKeys ==
    {"total_impressions", "total_clicks", "total_conversions", "total_spend", "total_revenue"}

\* C15: the five totals each equal the arithmetic sum of their field over
\* the metric collection, in any order of the collection; for an empty
\* collection the five sums and the number of samples are 0 and no error is
\* raised.
C15_TotalsAreOrderFreeSums ==
    (Returned /\ route = "get_campaign_performance") =>
        LET rows == args.metrics
            n    == Len(rows)
        IN  /\ ~RaisedError
            /\ result.total_impressions = FieldSum(rows, "impressions", n)
            /\ result.total_clicks = FieldSum(rows, "clicks", n)
            /\ result.total_conversions = FieldSum(rows, "conversions", n)
            /\ result.total_spend = FieldSum(rows, "spend", n)
            /\ result.total_revenue = FieldSum(rows, "revenue", n)
            /\ Len(result.daily_metrics) = n
            /\ \A p \in Reorderings(n) :
                  LET reordered == get_campaign_performance(args.campaign_id,
                                                           [i \in 1..n |-> rows[p[i]]])
                  IN  \A k \in TotalKeys : reordered[k] = result[k]
            /\ n = 0 => \A k \in TotalKeys : result[k] = 0

\* two different rows have been summed: 1000 + 0 impressions, 0 + 50 clicks
C15_Witness ==
    /\ Returned
    /\ route = "get_campaign_performance"
    /\ Len(args.metrics) = 2
    /\ args.metrics[1].impressions = 1000
    /\ args.metrics[2].impressions = 0
    /\ args.metrics[1].clicks = 0
    /\ args.metrics[2].clicks = 50
    /\ result.total_impressions = 1000
    /\ result.total_clicks = 50
    /\ result.total_conversions = 10

\* C16 as stated: with total_clicks = 0, whatever the other fields,
\* cvr_percent, cpc and cost_per_acquisition are all 0.
C16_NoClicksZeroesAcquisitionCost ==
    (ReportReturned /\ performance_data.total_clicks = 0) =>
        /\ ~RaisedError
        /\ result.calculated_metrics.cvr_percent = Zero
        /\ result.calculated_metrics.cpc = Zero
        /\ result.calculated_metrics.cost_per_acquisition = Zero

\* C16 amended: with total_clicks = 0, cvr_percent and cpc are 0;
\* cost_per_acquisition is 0 only when total_conversions = 0 and otherwise
\* total_spend / total_conversions (rounded to 2 decimals), clicks or not.
C16_NoClicksZeroesClickRatios ==
    (ReportReturned /\ performance_data.total_clicks = 0) =>
        /\ ~RaisedError
        /\ result.calculated_metrics.cvr_percent = Zero
        /\ result.calculated_metrics.cpc = Zero
        /\ result.calculated_metrics.cost_per_acquisition =
              (IF performance_data.total_conversions > 0
               THEN Round(Norm(performance_data.total_spend,
                               performance_data.total_conversions), 2)
               ELSE Zero)

\* no clicks, 5 conversions, spend 100: cost_per_acquisition is 20
C16_Witness ==
    /\ Returned
    /\ route = "get_campaign_performance"
    /\ result.total_clicks = 0
    /\ result.total_conversions = 5
    /\ result.total_spend = 100
    /\ result.calculated_metrics.cvr_percent = Zero
    /\ result.calculated_metrics.cpc = Zero
    /\ result.calculated_metrics.cost_per_acquisition = R(20)

----------------------------------------------------------------------------
(* Effect size and confidence interval of the significance test            *)

Average(xs) == RDiv(SumSeq(xs), R(Len(xs)))

\* C19: for every sample with at least 2 elements, used as both control and
\* test, the result has effect_size = 0 and significant = false.
C19_IdenticalSamplesNoEffect ==
    ( /\ SignificanceReturned
      /\ args.control_group = args.test_group
      /\ Len(args.control_group) >= 2 )
    => /\ "effect_size" \in DOMAIN result
       /\ result.effect_size = Zero
       /\ result.significant = FALSE

\* the result is the normal return of line 158, not the early return
NonDegenerate ==
    /\ SignificanceReturned
    /\ Len(args.control_group) >= 2
    /\ Len(args.test_group) >= 2
    /\ ~ZeroStandardError(args.control_group, args.test_group)

\* C20: in every non-degenerate result effect_size = mean_test -
\* mean_control and confidence_interval = [effect_size - 1.96 * se,
\* effect_size + 1.96 * se], so low <= effect_size <= high and the interval
\* is symmetric about effect_size.
C20_IntervalAroundEffect ==
    NonDegenerate =>
        LET effect == RSub(Average(args.test_group), Average(args.control_group))
            se     == Sqrt(RAdd(RDiv(SampleVariance(args.control_group),
                                     R(Len(args.control_group))),
                                RDiv(SampleVariance(args.test_group),
                                     R(Len(args.test_group)))))
            low    == result.confidence_interval[1]
            high   == result.confidence_interval[2]
        IN  /\ "effect_size" \in DOMAIN result
            /\ result.effect_size = effect
            /\ RSub(effect, low) = RMul(Norm(196, 100), se)
            /\ RSub(high, effect) = RMul(Norm(196, 100), se)
            /\ RLe(low, effect)
            /\ RLe(effect, high)
            /\ RSub(effect, low) = RSub(high, effect)

\* control 0, 1 against test 100, 100: effect 99.5, se 1/2, interval
\* 99.5 -+ 0.98
C20_Witness ==
    /\ SignificanceReturned
    /\ args.control_group = <<R(0), R(1)>>
    /\ args.test_group = <<R(100), R(100)>>
    /\ result.effect_size = Norm(199, 2)
    /\ result.confidence_interval = <<Norm(9852, 100), Norm(10048, 100)>>
    /\ result.significant = TRUE

----------------------------------------------------------------------------
(* Properties of calculate_variance and calculate_trend                    *)

\* C17: for every sequence with fewer than 2 elements calculate_variance
\* returns 0 and calculate_trend returns 0, without raising.
C17_ShortSeriesGiveZero ==
    ( /\ Returned
      /\ route \in {"calculate_variance", "calculate_trend"}
      /\ Len(args.data) < 2 )
    => result = Zero

\* the variance of a single observation has been asked for
C17_Witness ==
    /\ Returned
    /\ route = "calculate_variance"
    /\ args.data = <<R(3)>>
    /\ result = Zero

\* the i-th value is a + d * i
IsArithmetic(data) ==
    \A i \in 2..Len(data) : RSub(data[i], data[i - 1]) = RSub(data[2], data[1])

\* C18: for every arithmetic progression a + d * i of length n >= 2
\* calculate_trend returns exactly d; a constant sequence such as 5, 5, 5, 5
\* gives 0 and 1, 2, 3, 4, 5 gives 1.
C18_TrendOfProgressionIsStep ==
    ( /\ Returned
      /\ route = "calculate_trend"
      /\ Len(args.data) >= 2
      /\ IsArithmetic(args.data) )
    => /\ result = RSub(args.data[2], args.data[1])
       /\ args.data = <<R(5), R(5), R(5), R(5)>> => result = Zero
       /\ args.data = <<R(1), R(2), R(3), R(4), R(5)>> => result = One

\* the slope of 1, 2, 3, 4, 5 is 1
C18_Witness ==
    /\ Returned
    /\ route = "calculate_trend"
    /\ args.data = <<R(1), R(2), R(3), R(4), R(5)>>
    /\ result = One

----------------------------------------------------------------------------
(* Two report computations run by two workers                              *)

\* C14: two report computations run concurrently on independent inputs,
\* under every interleaving of their steps and without synchronization, each
\* return exactly the report a sequential run on the same input returns.
C14_ConcurrentAsSequential ==
    route = "concurrent_reports" =>
        \A w \in Workers :
            calls[w].pc = "done" =>
                /\ calls[w].result = calculate_campaign_performance(args[w])
                /\ calls[w].performance_data = calls[w].result

\* both computations have returned, on different inputs, different reports
C14_Witness ==
    /\ route = "concurrent_reports"
    /\ \A w \in Workers : calls[w].pc = "done"
    /\ args[1] = get_campaign_performance("c1", MetricRows(<<Example1, Example2>>))
    /\ args[2] = get_campaign_performance("c1", MetricRows(<<Example2>>))
    /\ calls[1].result.calculated_metrics.ctr_percent = Norm(433, 100)
    /\ calls[2].result.calculated_metrics.ctr_percent = R(4)

----------------------------------------------------------------------------
(* Further properties of calculate_risk_score                              *)

\* C21: whenever ctr >= 5, cvr >= 10, roas >= 5 and variance = 0,
\* calculate_risk_score returns exactly 0: every sub-risk floors at 0.
C21_ExcellentMetricsNoRisk ==
    (Returned /\ route = "calculate_risk_score"
        /\ RGe(args.ctr, R(5)) /\ RGe(args.cvr, R(10)) /\ RGe(args.roas, R(5))
        /\ args.variance = Zero)
    => result = Zero

\* ctr 7.5, cvr 15 and roas 7.5 lie strictly beyond the three thresholds
C21_Witness ==
    /\ Returned
    /\ route = "calculate_risk_score"
    /\ args = [ctr |-> Norm(15, 2), cvr |-> R(15), roas |-> Norm(15, 2), variance |-> Zero]
    /\ result = Zero

\* C22: calculate_risk_score is monotone: with the other three inputs
\* fixed, raising ctr, cvr or roas never increases the risk score, and
\* raising variance never decreases it.
C22_RiskScoreMonotone ==
    (Returned /\ route = "calculate_risk_score") =>
        /\ \A ctr \in RateValues :
              RGe(ctr, args.ctr) =>
                RLe(calculate_risk_score(ctr, args.cvr, args.roas, args.variance), result)
        /\ \A cvr \in CvrValues :
              RGe(cvr, args.cvr) =>
                RLe(calculate_risk_score(args.ctr, cvr, args.roas, args.variance), result)
        /\ \A roas \in RateValues :
              RGe(roas, args.roas) =>
                RLe(calculate_risk_score(args.ctr, args.cvr, roas, args.variance), result)
        /\ \A variance \in VarianceValues :
              RGe(variance, args.variance) =>
                RGe(calculate_risk_score(args.ctr, args.cvr, args.roas, variance), result)

\* a call whose score strictly falls when cvr is raised and strictly rises
\* when variance is raised
C22_Witness ==
    /\ Returned
    /\ route = "calculate_risk_score"
    /\ args = [ctr |-> Zero, cvr |-> R(5), roas |-> Zero, variance |-> R(500000)]
    /\ result = R(80)
    /\ calculate_risk_score(Zero, R(10), Zero, R(500000)) = R(65)
    /\ calculate_risk_score(Zero, R(5), Zero, R(1000000)) = R(85)

\* C27: for a report built from an empty sample collection (all totals 0, no
\* daily metrics) risk_score is 90, not 0: the ctr, cvr and roas sub-risks
\* are each 1 and the variance sub-risk is 0.  More generally
\* calculate_risk_score reaches 100 only when ctr = cvr = roas = 0 and the
\* variance is at least 1,000,000.
C27_EmptyReportRiskIsNinety ==
    /\ (ReportReturned /\ ~RaisedError
            /\ \A k \in TotalKeys : result[k] = 0
            /\ Get(result, "daily_metrics", <<>>) = <<>>)
        => /\ result.calculated_metrics.risk_score = R(90)
           /\ CtrRisk(result.calculated_metrics.ctr_percent) = One
           /\ CvrRisk(result.calculated_metrics.cvr_percent) = One
           /\ RoasRisk(result.calculated_metrics.roas) = One
           /\ VarianceRisk(result.calculated_metrics.impression_variance) = Zero
    /\ (Returned /\ route = "calculate_risk_score" /\ RGe(result, R(100)))
        => /\ result = R(100)
           /\ args.ctr = Zero
           /\ args.cvr = Zero
           /\ args.roas = Zero
           /\ RGe(args.variance, R(1000000))

\* the report of a campaign without metric rows carries risk_score 90
C27_Witness ==
    /\ Returned
    /\ route = "get_campaign_performance"
    /\ args.metrics = <<>>
    /\ result.total_impressions = 0
    /\ result.calculated_metrics.risk_score = R(90)

----------------------------------------------------------------------------
(* The report builder applied to its own output                            *)

\* C28: calculate_campaign_performance is idempotent: applied to its own
\* output it yields a report with the same totals, the same daily_metrics
\* and the same calculated_metrics as the first application.
C28_ReportIdempotent ==
    [][(pc = "done" /\ pc' = "again") =>
          /\ "raised" \notin DOMAIN result'
          /\ \A k \in TotalKeys : result'[k] = result[k]
          /\ Get(result', "daily_metrics", <<>>) = Get(result, "daily_metrics", <<>>)
          /\ result'.calculated_metrics = result.calculated_metrics]_vars

\* the second application has returned the report of two daily samples
C28_Witness ==
    /\ pc = "again"
    /\ route = "calculate_campaign_performance"
    /\ result.total_spend = 1
    /\ result.total_revenue = 2
    /\ Len(result.daily_metrics) = 2
    /\ result.calculated_metrics.roas = R(2)
    /\ result.calculated_metrics.profit = One

----------------------------------------------------------------------------
(* The decision of calculate_statistical_significance                      *)

\* C26: in a non-degenerate result significant is true if and only if t_stat
\* squared exceeds 1521 * (n_control + n_test - 2), that is |t| > 39 *
\* sqrt(n_control + n_test - 2); for every smaller |t| the result is not
\* significant, however far apart the two means are.
C26_SignificantIffLargeT ==
    NonDegenerate =>
        LET effect == RSub(Average(args.test_group), Average(args.control_group))
            se_squared == RAdd(RDiv(SampleVariance(args.control_group),
                                    R(Len(args.control_group))),
                               RDiv(SampleVariance(args.test_group),
                                    R(Len(args.test_group))))
            t_squared == RDiv(RSquare(effect), se_squared)
            df == Len(args.control_group) + Len(args.test_group) - 2
        IN  result.significant <=> RGt(t_squared, R(1521 * df))

\* control 0, 1 against test 100, 100: t = 199 > 39 * sqrt(2), significant
C26_Witness ==
    /\ SignificanceReturned
    /\ args.control_group = <<R(0), R(1)>>
    /\ args.test_group = <<R(100), R(100)>>
    /\ result.significant = TRUE
    /\ RLt(result.p_value, Norm(5, 100))

----------------------------------------------------------------------------
(* Properties of the endpoint run_ab_test_analysis                         *)

AbTestAnswered == Returned /\ route = "run_ab_test_analysis"

\* C25: run_ab_test_analysis answers HTTP 400 'Insufficient data for A/B test
\* analysis' exactly when the metric data of the control or the test
\* campaign is empty, and then computes no result; a sample with exactly one
\* observation is not rejected and yields the degenerate significance result
\* in a normal response.
C25_RejectsOnlyEmptyData ==
    AbTestAnswered =>
        /\ RaisedError <=> (args.control_data = <<>> \/ args.test_data = <<>>)
        /\ RaisedError =>
              /\ result.raised = "HTTPException"
              /\ result.status_code = 400
              /\ result.detail = "Insufficient data for A/B test analysis"
              /\ "results" \notin DOMAIN result
        /\ (~RaisedError /\ (Len(args.control_data) = 1 \/ Len(args.test_data) = 1)) =>
              /\ result.results.p_value = One
              /\ result.results.significant = FALSE
              /\ result.results.confidence_interval = <<Zero, Zero>>

\* one observation against two: answered with the degenerate result
C25_Witness ==
    /\ AbTestAnswered
    /\ args.control_data = <<R(1)>>
    /\ args.test_data = <<R(0), R(100)>>
    /\ ~RaisedError
    /\ result.results.p_value = One
    /\ result.confidence_level = args.confidence_level

\* C29: the results of run_ab_test_analysis depend only on the two samples:
\* requests that differ only in confidence_level (any value in 0.8..0.99)
\* return identical p_value, significant, confidence_interval and
\* effect_size, the interval always using the 95% factor 1.96 and the
\* threshold 0.05.
C29_ResultsIgnoreConfidenceLevel ==
    (AbTestAnswered /\ ~RaisedError) =>
        /\ \A level \in ConfidenceLevels :
              \A recommendation \in Recommendations :
                  run_ab_test_analysis([args EXCEPT !.confidence_level = level],
                                       args.control_data, args.test_data,
                                       recommendation).results = result.results
        /\ (Len(args.control_data) >= 2 /\ Len(args.test_data) >= 2
                /\ ~ZeroStandardError(args.control_data, args.test_data)) =>
              LET effect == RSub(Average(args.test_data), Average(args.control_data))
                  se == Sqrt(RAdd(RDiv(SampleVariance(args.control_data),
                                       R(Len(args.control_data))),
                                  RDiv(SampleVariance(args.test_data),
                                       R(Len(args.test_data)))))
              IN  /\ result.results.confidence_interval =
                        <<RSub(effect, RMul(Norm(196, 100), se)),
                          RAdd(effect, RMul(Norm(196, 100), se))>>
                  /\ result.results.significant
                        <=> RLt(result.results.p_value, Norm(5, 100))

\* a request at confidence_level 0.99 answered with the 95% decision:
\* p is about 0.014, below 0.05 and above 0.01
C29_Witness ==
    /\ AbTestAnswered
    /\ args.confidence_level = Norm(99, 100)
    /\ args.control_data = <<R(0), R(1)>>
    /\ args.test_data = <<R(100), R(100)>>
    /\ result.results.significant = TRUE
    /\ RGt(result.results.p_value, Norm(1, 100))
    /\ result.results.confidence_interval = <<Norm(9852, 100), Norm(10048, 100)>>

----------------------------------------------------------------------------
(* Properties of the campaign status: update_campaign_status               *)

StatusAnswered == Returned /\ route = "update_campaign_status"

\* C23: a campaign cannot be activated without ads: after any sequence of
\* update_campaign_status calls with statuses from draft, active, paused and
\* completed, starting from a draft campaign that has no ads and to which
\* none are added, the campaign is never in status active.
C23_NoActivationWithoutAds ==
    route = "update_campaign_status" =>
        \A c \in CampaignIds :
            db.campaigns[c].ads = <<>> => db.campaigns[c].status # "active"

\* the request the step serves fails for one of the three causes
FailingRequest ==
    \/ args'.status \notin valid_statuses
    \/ args'.campaign_id \notin DOMAIN db.campaigns
    \/ /\ args'.campaign_id \in DOMAIN db.campaigns
       /\ args'.status = "active"
       /\ db.campaigns[args'.campaign_id].status = "draft"
       /\ db.campaigns[args'.campaign_id].ads = <<>>

\* C24: when update_campaign_status fails (campaign not found, draft to
\* active with no ads, or a status outside the four valid values rejected by
\* the endpoint), the stored campaign's status and updated_at are unchanged
\* and nothing is committed.
C24_FailureLeavesStoreUnchanged ==
    [][(route = "update_campaign_status" /\ now' = now + 1) =>
          /\ FailingRequest => "raised" \in DOMAIN result'
          /\ "raised" \in DOMAIN result' =>
                /\ \A c \in CampaignIds :
                      /\ db'.campaigns[c].status = db.campaigns[c].status
                      /\ db'.campaigns[c].updated_at = db.campaigns[c].updated_at
                /\ db'.commits = db.commits
                /\ db' = db]_vars

\* an activation refused after an earlier accepted request: the campaign
\* keeps the status and the updated_at of the first request
C24_Witness ==
    /\ StatusAnswered
    /\ RaisedError
    /\ result = ValueError("Cannot activate campaign without ads")
    /\ args = [campaign_id |-> "c1", status |-> "active"]
    /\ now = 2
    /\ db.commits = 1
    /\ db.campaigns["c1"].status = "draft"
    /\ db.campaigns["c1"].updated_at = 1

====
